---- MODULE Spec2Model ----
(***************************************************************************)
(* Model of the orchestrator chat client (src/streamlit_app.py).           *)
(*                                                                         *)
(* The state is the Streamlit session state (messages, thread_id,          *)
(* task_plans, execution_history, input_query), the widget values read by  *)
(* a script run (user_input, submit_button, API_BASE_URL), the wall clock  *)
(* read by time.time(), and the position of the one script run: Idle, or   *)
(* Sending while requests.post blocks inside call_orchestrator.            *)
(*                                                                         *)
(* JSON values are records [k, v]: k is the kind ("absent" for a key the   *)
(* object does not have, "null", "str", "list", "object"), v the payload.  *)
(* The "timestamp" key of a turn and of an execution history entry is a    *)
(* formatted clock reading used for display only; it is left out.          *)
(***************************************************************************)
EXTENDS Integers, Sequences, FiniteSets, TLC

\* ------------------------------------------------------------------ bounds

\* Largest number of turns the transcript is let grow to.
MaxTurns == 2
\* Largest number of entries the execution history is let grow to.
MaxHistory == 1
\* Number of seconds the wall clock is let advance.
MaxClock == 1

\* ------------------------------------------------------- program constants

\* The one status code call_orchestrator takes for success.
HTTP_OK == 200
\* int(time.time()) when the session starts.
StartTime == 0

\* ------------------------------------------------------------- JSON values

\* A key the object does not carry / JSON null (Python None) / a string.
Absent == [k |-> "absent", v |-> ""]
None == [k |-> "null", v |-> ""]
Str(s) == [k |-> "str", v |-> s]
\* An object, named by its canonical serialisation.
Obj(s) == [k |-> "object", v |-> s]

\* The same three for values whose payload is a sequence.
AbsentL == [k |-> "absent", v |-> <<>>]
NoneL == [k |-> "null", v |-> <<>>]
List(s) == [k |-> "list", v |-> s]

\* Python truthiness: None, "", [], {} are false.
Truthy(x) ==
    CASE x.k = "absent" -> FALSE
      [] x.k = "null" -> FALSE
      [] x.k = "str" -> x.v # ""
      [] x.k = "list" -> x.v # <<>>
      [] x.k = "object" -> x.v # "{}"
      [] OTHER -> TRUE

\* dict.get(key): None when the key is absent.
Get(x) == IF x.k = "absent" THEN None ELSE x
GetL(x) == IF x.k = "absent" THEN NoneL ELSE x
\* dict.get(key, default).
GetDefault(x, d) == IF x.k = "absent" THEN d ELSE x

\* A task plan as JSON text, canonical and with extra white space.
PlanText == "{\"agents\":[\"A\"]}"
PlanTextSpaced == " { \"agents\" : [ \"A\" ] } "

\* json.loads: whether the text decodes, and the value it decodes to.
json_valid(text) == text \in {"null", "{}", PlanText, PlanTextSpaced}
json_loads(text) ==
    CASE text = "null" -> None
      [] text = "{}" -> Obj("{}")
      [] text \in {PlanText, PlanTextSpaced} -> Obj(PlanText)
      [] OTHER -> None

\* ------------------------------------------------- orchestrator responses

\* A decoded response body. k is "object" for a JSON object (the five keys
\* the client reads, each possibly absent), and "null", "empty_list", "list"
\* or "str" for a body that is some other JSON value; "invalid" is a body
\* that is not JSON at all.
Body(k, status, task_plan, execution_order, results, error) ==
    [k |-> k, status |-> status, task_plan |-> task_plan,
     execution_order |-> execution_order, results |-> results, error |-> error]
NonObject(k) == Body(k, Absent, Absent, AbsentL, AbsentL, Absent)
EmptyObject == Body("object", Absent, Absent, AbsentL, AbsentL, Absent)

Pong == List(<< <<"agentX", "pong">> >>)

ObjectBodies ==
    { EmptyObject,
      Body("object", Str("complete"), Absent, List(<<"agentX">>), Pong, Absent),
      Body("object", Str("complete"), Str("not json"), List(<<"agentX">>), Pong, Absent),
      Body("object", Str("complete"), Str(PlanTextSpaced), List(<<"agentX">>), AbsentL, Absent),
      Body("object", Str("complete"), Str("null"), List(<<"agentX">>), AbsentL, Absent),
      Body("object", Absent, Obj(PlanText), List(<<"A", "B", "A">>), NoneL, None),
      Body("object", Absent, Str("{}"), List(<<"A", "B", "A">>), AbsentL, Absent),
      Body("object", None, Str(""), AbsentL, AbsentL, Str("")),
      Body("object", Str("error"), None, NoneL, AbsentL, Str("boom")) }

Bodies == ObjectBodies \cup { NonObject(k) : k \in {"null", "empty_list", "list", "str", "invalid"} }

\* BodyTruthy as `if result is not None:` would have it.
BodyTruthy_is_not_none(b) == b.k \notin {"null", "invalid"}

\* `if result:` on a decoded body: a dict is true when it has a key, a list
\* or a string when it is not empty.
BodyTruthy(b) ==
    CASE b.k = "object" -> b # EmptyObject
      [] b.k = "list" -> TRUE
      [] b.k = "str" -> TRUE
      [] OTHER -> FALSE

\* What requests.post does: it raises, or returns a response with a status
\* code and a body.
Outcome(kind, code, body) == [kind |-> kind, status_code |-> code, body |-> body]
NoOutcome == Outcome("none", 0, NonObject("null"))
Outcomes ==
    { Outcome("ReadTimeout", 0, NonObject("null")),
      Outcome("ConnectionError", 0, NonObject("null")) }
      \cup { Outcome("response", HTTP_OK, b) : b \in Bodies }
      \cup { Outcome("response", 404, NonObject("invalid")),
             Outcome("response", 500, Body("object", Str("error"), None, NoneL, AbsentL, Str("boom"))) }

Urls == {"http://localhost:9000", "http://orch:9000"}

\* call_orchestrator without the status check of line 87: the body of any
\* response is decoded and returned.
call_orchestrator_any_status(o, url) ==
    CASE o.kind = "ConnectionError" ->
            [result |-> NonObject("null"), st_error |-> "Cannot connect to orchestrator at " \o url]
      [] o.kind = "ReadTimeout" ->
            [result |-> NonObject("null"), st_error |-> "Error: Read timed out"]
      [] o.kind = "response" /\ o.body.k = "invalid" ->
            [result |-> NonObject("null"), st_error |-> "Error: Expecting value"]
      [] OTHER ->
            [result |-> o.body, st_error |-> ""]

\* call_orchestrator: the value returned (body NonObject("null") stands for
\* None) and the message handed to st.error ("" when none is).
call_orchestrator(o, url) ==
    CASE o.kind = "ConnectionError" ->
            [result |-> NonObject("null"), st_error |-> "Cannot connect to orchestrator at " \o url]
      [] o.kind = "ReadTimeout" ->
            [result |-> NonObject("null"), st_error |-> "Error: Read timed out"]
      [] o.kind = "response" /\ o.status_code # HTTP_OK ->
            [result |-> NonObject("null"), st_error |-> "API Error: " \o ToString(o.status_code)]
      [] o.kind = "response" /\ o.status_code = HTTP_OK /\ o.body.k = "invalid" ->
            [result |-> NonObject("null"), st_error |-> "Error: Expecting value"]
      [] OTHER ->
            [result |-> o.body, st_error |-> ""]

\* ------------------------------------------------------------------- state

VARIABLES
    messages,           \* st.session_state.messages: the turns
    thread_id,          \* st.session_state.thread_id
    task_plans,         \* st.session_state.task_plans
    execution_history,  \* st.session_state.execution_history
    input_query,        \* st.session_state.input_query (set by an example button)
    API_BASE_URL,       \* the orchestrator URL of the sidebar text input
    user_input,         \* the text of the "Ask orchestrator..." input
    submit_button,      \* the value of the Send button in the last script run
    now,                \* int(time.time())
    pc,                 \* "Idle", or "Sending" while requests.post blocks
    inflight,           \* the requests posted and not yet answered, oldest first
    response,           \* what requests.post did in the last submission
    st_error,           \* the message the last script run gave st.error, or ""
    exception           \* the exception that ended the last script run, or ""

vars == <<messages, thread_id, task_plans, execution_history, input_query,
          API_BASE_URL, user_input, submit_button, now, pc, inflight,
          response, st_error, exception>>

Queries == {"ping", "q"}

example_queries ==
    << "What is the impact of adding promo codes?",
       "Analyze the integration flow for payment module",
       "What systems are affected by the new API?",
       "Review the code structure and recommendations" >>

\* f"thread_{int(time.time())}"
new_thread_id(t) == "thread_" \o ToString(t)

\* The JSON body of the POST, line 83.
Request(query, tid) == [query |-> query, thread_id |-> tid]

\* The user turn of lines 321-325; the keys an assistant turn adds are absent.
UserTurn(text) ==
    [type |-> "user", content |-> text,
     status |-> Absent, task_plan |-> Absent, execution_order |-> AbsentL,
     results |-> AbsentL, error |-> Absent]

\* parse_task_plan without the try/except of lines 336-340: a text that does
\* not decode is kept as the plan and appended.
parse_task_plan_unguarded(result) ==
    IF ~Truthy(Get(result.task_plan))
    THEN [task_plan |-> None, appended |-> FALSE]
    ELSE IF result.task_plan.k = "str" /\ json_valid(result.task_plan.v)
         THEN [task_plan |-> json_loads(result.task_plan.v), appended |-> TRUE]
         ELSE [task_plan |-> result.task_plan, appended |-> TRUE]

\* Lines 334-340: the plan kept for the turn, and whether it was appended to
\* task_plans. A string that does not decode leaves None and appends nothing.
parse_task_plan(result) ==
    IF ~Truthy(Get(result.task_plan))
    THEN [task_plan |-> None, appended |-> FALSE]
    ELSE IF result.task_plan.k = "str"
         THEN IF json_valid(result.task_plan.v)
              THEN [task_plan |-> json_loads(result.task_plan.v), appended |-> TRUE]
              ELSE [task_plan |-> None, appended |-> FALSE]
         ELSE [task_plan |-> result.task_plan, appended |-> TRUE]

\* result.get("error") or "Task completed successfully"
assistant_content(result) ==
    IF Truthy(Get(result.error)) THEN result.error.v ELSE "Task completed successfully"

\* AssistantTurn with "complete" as the default status and the execution
\* order cut to its first agent.
AssistantTurn_complete_by_default(result, task_plan) ==
    [type |-> "assistant",
     content |-> assistant_content(result),
     status |-> GetDefault(result.status, Str("complete")),
     task_plan |-> task_plan,
     execution_order |-> IF result.execution_order.k = "list" /\ result.execution_order.v # <<>>
                         THEN List(<<Head(result.execution_order.v)>>)
                         ELSE GetL(result.execution_order),
     results |-> GetL(result.results),
     error |-> Get(result.error)]

\* The assistant turn of lines 344-353.
AssistantTurn(result, task_plan) ==
    [type |-> "assistant",
     content |-> assistant_content(result),
     status |-> GetDefault(result.status, Str("pending")),
     task_plan |-> task_plan,
     execution_order |-> GetL(result.execution_order),
     results |-> GetL(result.results),
     error |-> Get(result.error)]

\* HistoryEntry without the [] default of line 361.
HistoryEntry_no_default(query, tid, result) ==
    [query |-> query, thread_id |-> tid,
     status |-> Get(result.status),
     agents |-> GetL(result.execution_order)]

\* The execution history entry of lines 356-362.
HistoryEntry(query, tid, result) ==
    [query |-> query, thread_id |-> tid,
     status |-> Get(result.status),
     agents |-> GetDefault(result.execution_order, List(<<>>))]

\* ----------------------------------------------------------------- actions

\* Lines 62-72 on the first script run of a session.
Init ==
    /\ messages = <<>>
    /\ thread_id = new_thread_id(StartTime)
    /\ task_plans = <<>>
    /\ execution_history = <<>>
    /\ input_query = Absent
    /\ API_BASE_URL = "http://localhost:9000"
    /\ user_input = ""
    /\ submit_button = FALSE
    /\ now = StartTime
    /\ pc = "Idle"
    /\ inflight = <<>>
    /\ response = NoOutcome
    /\ st_error = ""
    /\ exception = ""

\* A script run started by a user event redraws the page: what the previous
\* run reported is gone, and the Send button reads False unless it was the
\* widget clicked.
NewRun(clicked_send) ==
    /\ submit_button' = clicked_send
    /\ response' = NoOutcome
    /\ st_error' = ""
    /\ exception' = ""

\* The wall clock advances.
Tick ==
    /\ now < StartTime + MaxClock
    /\ now' = now + 1
    /\ UNCHANGED <<messages, thread_id, task_plans, execution_history, input_query,
                   API_BASE_URL, user_input, submit_button, pc, inflight,
                   response, st_error, exception>>

\* Lines 173-179: the user edits the orchestrator URL.
EditUrl(url) ==
    /\ pc = "Idle"
    /\ url # API_BASE_URL
    /\ API_BASE_URL' = url
    /\ NewRun(FALSE)
    /\ UNCHANGED <<messages, thread_id, task_plans, execution_history, input_query,
                   user_input, now, pc, inflight>>

\* Lines 304-309: the user types into the query input.
TypeInput(text) ==
    /\ pc = "Idle"
    /\ text # user_input
    /\ user_input' = text
    /\ NewRun(FALSE)
    /\ UNCHANGED <<messages, thread_id, task_plans, execution_history, input_query,
                   API_BASE_URL, now, pc, inflight>>

\* Lines 188-193: the New Thread button.
NewThread ==
    /\ pc = "Idle"
    /\ thread_id' = new_thread_id(now)
    /\ messages' = <<>>
    /\ task_plans' = <<>>
    /\ execution_history' = <<>>
    /\ NewRun(FALSE)
    /\ UNCHANGED <<input_query, API_BASE_URL, user_input, now, pc, inflight>>

\* Lines 214-217: an example query button.
ExampleQuery(i) ==
    /\ pc = "Idle"
    /\ input_query' = Str(example_queries[i])
    /\ NewRun(FALSE)
    /\ UNCHANGED <<messages, thread_id, task_plans, execution_history,
                   API_BASE_URL, user_input, now, pc, inflight>>

\* Lines 222-224: the Clear History button.
ClearHistory ==
    /\ pc = "Idle"
    /\ messages' = <<>>
    /\ NewRun(FALSE)
    /\ UNCHANGED <<thread_id, task_plans, execution_history, input_query,
                   API_BASE_URL, user_input, now, pc, inflight>>

\* Lines 312 and 318 with an empty input: the guard fails, the run ends.
SendEmpty ==
    /\ pc = "Idle"
    /\ user_input = ""
    /\ NewRun(TRUE)
    /\ UNCHANGED <<messages, thread_id, task_plans, execution_history, input_query,
                   API_BASE_URL, user_input, now, pc, inflight>>

\* Send that starts the transcript over instead of appending to it.
Send_replaces_turns ==
    /\ pc = "Idle"
    /\ user_input # ""
    /\ Len(messages) < MaxTurns
    /\ Len(execution_history) < MaxHistory
    /\ messages' = <<UserTurn(user_input)>>
    /\ inflight' = Append(inflight, Request(user_input, thread_id))
    /\ pc' = "Sending"
    /\ NewRun(TRUE)
    /\ UNCHANGED <<thread_id, task_plans, execution_history, input_query,
                   API_BASE_URL, user_input, now>>

\* Send that does not wait for the pending call: a click is handled while
\* requests.post is still blocked.
Send_while_sending ==
    /\ user_input # ""
    /\ Len(messages) < MaxTurns
    /\ Len(execution_history) < MaxHistory
    /\ messages' = Append(messages, UserTurn(user_input))
    /\ inflight' = Append(inflight, Request(user_input, thread_id))
    /\ pc' = "Sending"
    /\ NewRun(TRUE)
    /\ UNCHANGED <<thread_id, task_plans, execution_history, input_query,
                   API_BASE_URL, user_input, now>>

\* Send that posts the request without appending the user turn.
Send_without_user_turn ==
    /\ pc = "Idle"
    /\ user_input # ""
    /\ Len(messages) < MaxTurns
    /\ Len(execution_history) < MaxHistory
    /\ inflight' = Append(inflight, Request(user_input, thread_id))
    /\ pc' = "Sending"
    /\ NewRun(TRUE)
    /\ UNCHANGED <<messages, thread_id, task_plans, execution_history, input_query,
                   API_BASE_URL, user_input, now>>

\* Lines 318-330 and 81-85: the user turn is appended and the request posted.
Send ==
    /\ pc = "Idle"
    /\ user_input # ""
    /\ Len(messages) < MaxTurns
    /\ Len(execution_history) < MaxHistory
    /\ messages' = Append(messages, UserTurn(user_input))
    /\ inflight' = Append(inflight, Request(user_input, thread_id))
    /\ pc' = "Sending"
    /\ NewRun(TRUE)
    /\ UNCHANGED <<thread_id, task_plans, execution_history, input_query,
                   API_BASE_URL, user_input, now>>

\* Lines 87-98 and 332-364: requests.post returns or raises and the rest of
\* the submit handler runs.
Resolve(o) ==
    /\ pc = "Sending"
    /\ LET r == call_orchestrator(o, API_BASE_URL)
           result == r.result
           plan == parse_task_plan(result)
       IN  /\ response' = o
           /\ st_error' = r.st_error
           /\ inflight' = Tail(inflight)
           /\ pc' = "Idle"
           /\ IF ~BodyTruthy(result)
              THEN \* `if result:` is false; st.rerun()
                   /\ submit_button' = FALSE
                   /\ exception' = ""
                   /\ UNCHANGED <<messages, task_plans, execution_history>>
              ELSE IF result.k # "object"
              THEN \* result.get on a list or a string, line 335
                   /\ exception' = "AttributeError"
                   /\ UNCHANGED <<messages, task_plans, execution_history, submit_button>>
              ELSE /\ task_plans' = IF plan.appended
                                    THEN Append(task_plans, plan.task_plan)
                                    ELSE task_plans
                   /\ messages' = Append(messages, AssistantTurn(result, plan.task_plan))
                   /\ execution_history' =
                        Append(execution_history,
                               HistoryEntry(user_input, thread_id, result))
                   /\ submit_button' = FALSE
                   /\ exception' = ""
    /\ UNCHANGED <<thread_id, input_query, API_BASE_URL, user_input, now>>

Next ==
    \/ Tick
    \/ \E url \in Urls : EditUrl(url)
    \/ \E text \in Queries \cup {""} : TypeInput(text)
    \/ NewThread
    \/ \E i \in DOMAIN example_queries : ExampleQuery(i)
    \/ ClearHistory
    \/ SendEmpty
    \/ Send
    \/ \E o \in Outcomes : Resolve(o)

Spec == Init /\ [][Next]_vars

\* ------------------------------------------------------------------ claims

Last(seq) == seq[Len(seq)]
IsPrefix(a, b) == Len(a) <= Len(b) /\ SubSeq(b, 1, Len(a)) = a

\* A step in which the pending call resolves and the submit handler ends.
ResolveStep == pc = "Sending" /\ pc' = "Idle"
\* A step in which a click on Send is handled.
SubmitStep == pc = "Idle" /\ now' = now /\ submit_button'

\* The call got an HTTP response, with a success status or not.
ResponseReceived(o) == o.kind = "response"
\* The call ended in Timeout, ConnectionFailure or ApiError.
CallFailed(o) ==
    \/ o.kind \in {"ReadTimeout", "ConnectionError"}
    \/ o.kind = "response" /\ o.status_code # HTTP_OK
\* A success whose body is a JSON object with at least one key.
Answered(o) ==
    o.kind = "response" /\ o.status_code = HTTP_OK /\ o.body.k = "object" /\ o.body # EmptyObject
\* A success whose task_plan is a text that is not valid JSON.
PlanTextInvalid(o) ==
    /\ o.kind = "response" /\ o.status_code = HTTP_OK /\ o.body.k = "object"
    /\ o.body.task_plan.k = "str" /\ o.body.task_plan.v \notin {"null", "{}", PlanText, PlanTextSpaced}

PingBody == Body("object", Str("complete"), Absent, List(<<"agentX">>), Pong, Absent)

\* C1 as stated: every submission appends exactly one User turn, and exactly
\* one Assistant turn exactly when a response (a success or an API error) was
\* received; a submission with no response at all adds the User turn only.
C1_TurnsPerSubmission ==
    [][ /\ (SubmitStep /\ user_input # "") =>
              /\ Len(messages') = Len(messages) + 1
              /\ IsPrefix(messages, messages')
              /\ Last(messages').type = "user"
        /\ ResolveStep =>
              IF ResponseReceived(response')
              THEN /\ Len(messages') = Len(messages) + 1
                   /\ IsPrefix(messages, messages')
                   /\ Last(messages').type = "assistant"
              ELSE messages' = messages ]_vars

\* C1 as amended: every submission appends exactly one User turn, and exactly
\* one Assistant turn exactly when the call returned status 200 with a body
\* that is a JSON object with at least one key; after a timeout, a connection
\* failure, any other status, or a body that is not JSON, is null, is empty
\* or is no object, the User turn is the only turn it adds.
C1_TurnsPerAnsweredSubmission ==
    [][ /\ (SubmitStep /\ user_input # "") =>
              /\ Len(messages') = Len(messages) + 1
              /\ IsPrefix(messages, messages')
              /\ Last(messages').type = "user"
              /\ Last(messages').content = user_input
        /\ ResolveStep =>
              IF Answered(response')
              THEN /\ Len(messages') = Len(messages) + 1
                   /\ IsPrefix(messages, messages')
                   /\ Last(messages').type = "assistant"
              ELSE messages' = messages ]_vars

C1_Witness ==
    /\ pc = "Idle"
    /\ response.kind = "response"
    /\ response.status_code = 500
    /\ Len(messages) = 1
    /\ messages[1].type = "user"

\* C2: the New Thread action yields an empty turn list, an empty task-plan
\* history, an empty execution history and a thread_id that differs from the
\* one held immediately before it.
C2_ResetYieldsFreshThread ==
    [][ NewThread =>
          /\ messages' = <<>>
          /\ task_plans' = <<>>
          /\ execution_history' = <<>>
          /\ thread_id' # thread_id ]_vars

\* C3: when a successful response carries a task_plan text that is not valid
\* JSON, the handler raises nothing, appends the Assistant turn with a null
\* task_plan and the other fields of the response, and appends nothing to
\* task_plans.
C3_InvalidPlanTextIsAbsent ==
    [][ (ResolveStep /\ PlanTextInvalid(response')) =>
          /\ exception' = ""
          /\ Len(messages') = Len(messages) + 1
          /\ IsPrefix(messages, messages')
          /\ Last(messages').type = "assistant"
          /\ Last(messages').task_plan.k = "null"
          /\ response'.body.status.k # "absent" =>
                Last(messages').status = response'.body.status
          /\ response'.body.execution_order.k # "absent" =>
                Last(messages').execution_order = response'.body.execution_order
          /\ response'.body.results.k # "absent" =>
                Last(messages').results = response'.body.results
          /\ response'.body.error.k # "absent" =>
                Last(messages').error = response'.body.error
          /\ task_plans' = task_plans ]_vars

C3_Witness ==
    /\ pc = "Idle"
    /\ PlanTextInvalid(response)
    /\ response.body.task_plan.v = "not json"
    /\ messages # <<>>
    /\ Last(messages).type = "assistant"
    /\ Last(messages).task_plan.k = "null"
    /\ task_plans = <<>>

C5_FailedYieldsErrorTurn ==
    (pc = "Idle" /\ CallFailed(response)) =>
        /\ messages # <<>>
        /\ Last(messages).type = "assistant"
        /\ Last(messages).status = Str("error")
        /\ Last(messages).content # ""
        /\ ~Truthy(Last(messages).error)

\* C5 as amended: a submission whose call ends in Failed appends no
\* Assistant turn: its User turn stays the last turn, the failure description
\* goes to st.error, and the handler ends without an exception.
C5_FailedLeavesUserTurnLast ==
    (pc = "Idle" /\ CallFailed(response)) =>
        /\ messages # <<>>
        /\ Last(messages).type = "user"
        /\ Last(messages).content = user_input
        /\ st_error # ""
        /\ exception = ""

C5_Witness ==
    /\ pc = "Idle"
    /\ response.kind = "ReadTimeout"
    /\ Len(messages) = 2
    /\ Last(messages).type = "user"
    /\ st_error = "Error: Read timed out"

\* C6 as stated: every submission whose call resolves, with a response or a
\* failure, appends exactly one entry to execution_history carrying the query and the
\* current thread_id; and it appends one entry to task_plans exactly when the
\* Assistant turn it appends has a non-null task_plan.
C6_HistoriesPerSubmission ==
    [][ ResolveStep =>
          /\ Len(execution_history') = Len(execution_history) + 1
          /\ IsPrefix(execution_history, execution_history')
          /\ Last(execution_history').query = user_input
          /\ Last(execution_history').thread_id = thread_id
          /\ IsPrefix(task_plans, task_plans')
          /\ Len(task_plans') =
                Len(task_plans) +
                (IF /\ Len(messages') = Len(messages) + 1
                    /\ Last(messages').type = "assistant"
                    /\ Last(messages').task_plan.k # "null"
                 THEN 1 ELSE 0) ]_vars

\* The response's task_plan is kept: it is true in Python's sense and is
\* either no text or a text that decodes.
PlanObtained(b) ==
    \/ b.task_plan.k = "object" /\ b.task_plan.v # "{}"
    \/ b.task_plan.k = "str" /\ b.task_plan.v \in {"null", "{}", PlanText, PlanTextSpaced}

\* C6 as amended: a submission appends one entry to execution_history exactly
\* when it appends an Assistant turn (status 200 and a JSON object with a
\* key), and none otherwise; the entry carries the query, the current
\* thread_id, the response's status (null when absent) and its
\* execution_order (an empty list when the key is absent). It appends one
\* entry to task_plans exactly when the response's task_plan is true in
\* Python's sense and is no text or a text that decodes; the entry is the
\* turn's task_plan, so a non-null task_plan in the turn implies an entry,
\* while the text "null" appends a null entry.
C6_HistoriesPerAnsweredSubmission ==
    [][ ResolveStep =>
          IF Answered(response')
          THEN LET b == response'.body
               IN  /\ execution_history' =
                        Append(execution_history,
                               [query |-> user_input,
                                thread_id |-> thread_id,
                                status |-> IF b.status.k = "absent" THEN None ELSE b.status,
                                agents |-> IF b.execution_order.k = "absent"
                                           THEN List(<<>>) ELSE b.execution_order])
                   /\ IF PlanObtained(b)
                      THEN task_plans' = Append(task_plans, Last(messages').task_plan)
                      ELSE task_plans' = task_plans
                   /\ Last(messages').task_plan.k # "null" =>
                        Len(task_plans') = Len(task_plans) + 1
          ELSE UNCHANGED <<execution_history, task_plans>> ]_vars

C6_Witness ==
    /\ pc = "Idle"
    /\ Answered(response)
    /\ response.body.task_plan = Str("null")
    /\ Len(execution_history) = 1
    /\ Last(execution_history).query = user_input
    /\ task_plans = <<None>>
    /\ Last(messages).task_plan = None

\* C7 as stated: New Thread is the only action after which a turn appended
\* before is gone.
C7_OnlyNewThreadDiscards ==
    [][ NewThread \/ IsPrefix(messages, messages') ]_vars

\* C7 as amended: New Thread and Clear History are the only actions after
\* which a turn appended before is gone; every other action leaves the turns
\* it found in place and in order.
C7_OnlyResetAndClearDiscard ==
    [][ NewThread \/ ClearHistory \/ IsPrefix(messages, messages') ]_vars

C7_Witness ==
    /\ pc = "Idle"
    /\ Len(messages) = 3
    /\ Last(messages).type = "assistant"
    /\ input_query # Absent
    /\ API_BASE_URL = "http://orch:9000"

\* C8: whatever the call does, the submit handler ends without an uncaught
\* error.
C8_NoUncaughtError == exception = ""

\* C9: a submission with text posts exactly one request, carrying the text
\* and the current thread_id; a submission without text posts none and
\* leaves the turns and both histories alone; and no request is posted while
\* another is pending.
C9_OneCallPerSubmission ==
    [][ /\ Len(inflight') <= 1
        /\ pc = "Sending" => IsPrefix(inflight', inflight)
        /\ (SubmitStep /\ user_input # "") =>
              /\ pc' = "Sending"
              /\ inflight' = <<[query |-> user_input, thread_id |-> thread_id]>>
        /\ (SubmitStep /\ user_input = "") =>
              /\ pc' = "Idle"
              /\ inflight' = <<>>
              /\ UNCHANGED <<messages, task_plans, execution_history>> ]_vars

C9_Witness ==
    /\ pc = "Sending"
    /\ inflight = <<[query |-> "ping", thread_id |-> "thread_1"]>>
    /\ Len(messages) = 2

\* The index in execution_history of the entry written with the Assistant
\* turn messages[i]: the turns and the entries are appended together, so the
\* last turn goes with the last entry.
EntryOf(i) ==
    Len(execution_history)
        - Cardinality({ j \in (i + 1)..Len(messages) : messages[j].type = "assistant" })

====
